---- MODULE Spec2Model ----
(***************************************************************************)
(* Model of the gateway's frame-processing pipeline (app.js):              *)
(* POST /api/process-frame, processFace and isValidISOString.              *)
(*                                                                         *)
(* One action is one turn of the Node event loop: the arrival of a client  *)
(* request or of a downstream answer, together with every continuation     *)
(* (awaits, Promise.all settlement, catch blocks, res.json) that runs      *)
(* before the next event is taken.                                         *)
(***************************************************************************)
EXTENDS Integers, Sequences, FiniteSets, TLC

\* Largest number of entries Localization puts in either of its two answers.
MaxFaces == 2

\* The requests a client may send.
Reqs == {"r1", "r2"}

VARIABLES
    clients,  \* the requests that are going to be sent
    pc,       \* per request: where the handler is suspended
    req,      \* per request: the multipart body and file of the request
    loc,      \* per request: the two Localization calls
    runs,     \* per request: the processFace runs, one per localized face
    resp,     \* per request: the responses sent, in order
    formGoesTo \* which Localization calls get the body of the form they share

vars == <<clients, pc, req, loc, runs, resp, formGoesTo>>

----------------------------------------------------------------------------
\* Values

\* A body field or uploaded file that the request does not carry (undefined).
Absent == <<>>
Some(v) == <<v>>

\* JavaScript's undefined where a string is expected.
Undefined == "undefined"

\* JavaScript's undefined where a bounding box is expected.
UndefinedBox == [undefined |-> TRUE]

\* Strings that are inspected character by character are sequences of characters.
Digits == <<"0", "1", "2", "3", "4", "5", "6", "7", "8", "9">>

IsDigit(c) == \E i \in 1..10 : Digits[i] = c

DigitVal(c) == (CHOOSE i \in 1..10 : Digits[i] = c) - 1

AllDigits(s) == \A i \in 1..Len(s) : IsDigit(s[i])

RECURSIVE NumVal(_)
NumVal(s) == IF s = <<>> THEN 0
             ELSE 10 * NumVal(SubSeq(s, 1, Len(s) - 1)) + DigitVal(s[Len(s)])

RECURSIVE Pad(_, _)
Pad(n, w) == IF w = 0 THEN <<>> ELSE Pad(n \div 10, w - 1) \o <<Digits[(n % 10) + 1]>>

----------------------------------------------------------------------------
\* new Date(str) and Date.prototype.toISOString, as isValidISOString uses them

NaN == [nan |-> TRUE]

IsLeap(y) == (y % 4 = 0 /\ y % 100 # 0) \/ y % 400 = 0

DaysInMonth(y, m) == IF m = 2 THEN (IF IsLeap(y) THEN 29 ELSE 28)
                     ELSE IF m \in {4, 6, 9, 11} THEN 30 ELSE 31

\* Day d of month m, where d may run past the end of the month.
MakeDay(y, m, d) ==
    IF d <= DaysInMonth(y, m) THEN [year |-> y, month |-> m, day |-> d]
    ELSE IF m = 12 THEN [year |-> y + 1, month |-> 1, day |-> d - 31]
    ELSE [year |-> y, month |-> m + 1, day |-> d - DaysInMonth(y, m)]

MakeDate(y, mo, d, h, mi, s, ms) ==
    LET dn == IF h = 24 THEN MakeDay(y, mo, d + 1) ELSE MakeDay(y, mo, d)
    IN  [year |-> dn.year, month |-> dn.month, day |-> dn.day,
         hour |-> IF h = 24 THEN 0 ELSE h, minute |-> mi, second |-> s, ms |-> ms]

DateShape(s) ==
    /\ Len(s) >= 10
    /\ AllDigits(SubSeq(s, 1, 4)) /\ s[5] = "-"
    /\ AllDigits(SubSeq(s, 6, 7)) /\ s[8] = "-"
    /\ AllDigits(SubSeq(s, 9, 10))

TimeShape(s) ==
    /\ Len(s) >= 19
    /\ s[11] = "T"
    /\ AllDigits(SubSeq(s, 12, 13)) /\ s[14] = ":"
    /\ AllDigits(SubSeq(s, 15, 16)) /\ s[17] = ":"
    /\ AllDigits(SubSeq(s, 18, 19))

FieldsInRange(mo, d, h, mi, s, ms) ==
    /\ mo \in 1..12 /\ d \in 1..31
    /\ mi \in 0..59 /\ s \in 0..59
    /\ h \in 0..23 \/ (h = 24 /\ mi = 0 /\ s = 0 /\ ms = 0)

\* new Date(str) for the ISO-8601 forms in UTC; anything else is an Invalid Date.
DateParse(str) ==
    LET y  == NumVal(SubSeq(str, 1, 4))
        mo == NumVal(SubSeq(str, 6, 7))
        d  == NumVal(SubSeq(str, 9, 10))
        h  == NumVal(SubSeq(str, 12, 13))
        mi == NumVal(SubSeq(str, 15, 16))
        s  == NumVal(SubSeq(str, 18, 19))
        ms == NumVal(SubSeq(str, 21, 23))
    IN  IF Len(str) = 24 /\ DateShape(str) /\ TimeShape(str) /\ str[20] = "."
           /\ AllDigits(SubSeq(str, 21, 23)) /\ str[24] = "Z"
        THEN IF FieldsInRange(mo, d, h, mi, s, ms)
             THEN MakeDate(y, mo, d, h, mi, s, ms) ELSE NaN
        ELSE IF Len(str) = 20 /\ DateShape(str) /\ TimeShape(str) /\ str[20] = "Z"
        THEN IF FieldsInRange(mo, d, h, mi, s, 0)
             THEN MakeDate(y, mo, d, h, mi, s, 0) ELSE NaN
        ELSE IF Len(str) = 10 /\ DateShape(str)
        THEN IF FieldsInRange(mo, d, 0, 0, 0, 0)
             THEN MakeDate(y, mo, d, 0, 0, 0, 0) ELSE NaN
        ELSE NaN

toISOString(d) ==
    Pad(d.year, 4) \o <<"-">> \o Pad(d.month, 2) \o <<"-">> \o Pad(d.day, 2)
    \o <<"T">> \o Pad(d.hour, 2) \o <<":">> \o Pad(d.minute, 2)
    \o <<":">> \o Pad(d.second, 2) \o <<".">> \o Pad(d.ms, 3) \o <<"Z">>

\* A check that takes every string that new Date can parse.
isValidISOStringAnyDate(str) == DateParse(str) # NaN

isValidISOString(str) ==
    LET d == DateParse(str)
    IN  d # NaN /\ toISOString(d) = str

----------------------------------------------------------------------------
\* The requests of the model

\* "2024-01-01T10:00:00.000Z"
TsCanonical == <<"2", "0", "2", "4", "-", "0", "1", "-", "0", "1", "T",
                 "1", "0", ":", "0", "0", ":", "0", "0", ".", "0", "0", "0", "Z">>

\* "2024-01-01T10:00:00Z"
TsNoMillis == <<"2", "0", "2", "4", "-", "0", "1", "-", "0", "1", "T",
                "1", "0", ":", "0", "0", ":", "0", "0", "Z">>

\* "2024-02-30T10:00:00.000Z"
TsFeb30 == <<"2", "0", "2", "4", "-", "0", "2", "-", "3", "0", "T",
             "1", "0", ":", "0", "0", ":", "0", "0", ".", "0", "0", "0", "Z">>

\* "2024-01-01"
TsDateOnly == <<"2", "0", "2", "4", "-", "0", "1", "-", "0", "1">>

\* "2024-01-01T24:00:00.000Z"
TsHour24 == <<"2", "0", "2", "4", "-", "0", "1", "-", "0", "1", "T",
              "2", "4", ":", "0", "0", ":", "0", "0", ".", "0", "0", "0", "Z">>

\* "now"
TsGarbage == <<"n", "o", "w">>

\* "L1"
LectureL1 == <<"L", "1">>

LectureIds == {Absent, Some(<<>>), Some(LectureL1)}

Timestamps == {Absent, Some(<<>>), Some(TsCanonical), Some(TsNoMillis),
               Some(TsFeb30), Some(TsDateOnly), Some(TsHour24), Some(TsGarbage)}

\* req.file as multer's memory storage leaves it
FrameFile == [buffer |-> <<"frame">>, mimetype |-> "image/jpeg"]

Files == {Absent, Some(FrameFile)}

NoReq == [none |-> TRUE]

----------------------------------------------------------------------------
\* The downstream services and their answers

\* The i-th bounding box and the i-th face crop (base64) of a frame.
Box(i) == [x |-> 20 * (i - 1), y |-> 20 * (i - 1), width |-> 10, height |-> 10]

Crop(i) == <<"crop", i>>

CoordsBodies == {[coordinates |-> [i \in 1..n |-> Box(i)]] : n \in 0..MaxFaces}

FacesBodies == {[faces |-> [i \in 1..n |-> Crop(i)]] : n \in 0..MaxFaces}

\* Recognition's bodies; the last two are malformed (no status, no person_id).
IdentifyBodies == {[person_id |-> "p1", status |-> "new"],
                   [person_id |-> "p2", status |-> "found"],
                   [person_id |-> "p3", status |-> Undefined],
                   [person_id |-> Undefined, status |-> "new"]}

AttentionBodies == {[attention_status |-> "focused", confidence |-> 9],
                    [attention_status |-> "unfocused", confidence |-> 4]}

HandRaisingBodies ==
    {[is_hand_raised |-> b, confidence |-> 8, hand_position |-> [x |-> 1, y |-> 2]]
        : b \in BOOLEAN}

\* What axios.post settles with: a 2xx answer resolves; a non-2xx answer and a
\* transport error reject.
Resolved(data) == [ok |-> TRUE, data |-> data]

HttpError(call) ==
    [ok |-> FALSE, message |-> "Request failed with status code 500",
     response |-> Some([status |-> 500, data |-> [failed |-> call.url, image |-> call.image]])]

NetError == [ok |-> FALSE, message |-> "socket hang up", response |-> Absent]

\* What FormData's append throws when it is given undefined for a value.
AppendTypeError ==
    [ok |-> FALSE, message |-> "Cannot read properties of undefined", response |-> Absent]

Rejections(call) == {HttpError(call), NetError}

BodiesOf(url) ==
    CASE url = "/localize-coords" -> CoordsBodies
      [] url = "/localize-faces" -> FacesBodies
      [] url = "/identify" -> IdentifyBodies
      [] url = "/detect-face-attention" -> AttentionBodies
      [] url = "/detect-hand-raising" -> HandRaisingBodies

\* A request that went out without the image it should carry.
Starved(call) == call.image = <<>>

\* A service has no body to answer a starved request with.
Answers(call) ==
    {Resolved(d) : d \in IF Starved(call) THEN {} ELSE BodiesOf(call.url)}
    \cup Rejections(call)

NoAnswer == [none |-> TRUE]

\* An axios.post that has been issued: the request sent and how it stands.
Issued(call) == [call |-> call, st |-> "pending", answer |-> NoAnswer]

NotIssued == [call |-> NoAnswer, st |-> "none", answer |-> NoAnswer]

Settle(p, ans) == [p EXCEPT !.st = "settled", !.answer = ans]

----------------------------------------------------------------------------
\* processFace

NoData == [none |-> TRUE]

IdentifyCall(faceImage) == [url |-> "/identify", image |-> faceImage]

AttentionCall(faceImage, face_id) ==
    [url |-> "/detect-face-attention", image |-> faceImage, face_id |-> face_id]

\* A HandRaising call that takes the student from a variable that all runs
\* write to, which holds the identity of the first face.
HandRaisingCallShared(faceImage, student_id, timestamp) ==
    [url |-> "/detect-hand-raising", image |-> faceImage,
     student_id |-> "p1", timestamp |-> timestamp]

HandRaisingCall(faceImage, student_id, timestamp) ==
    [url |-> "/detect-hand-raising", image |-> faceImage,
     student_id |-> student_id, timestamp |-> timestamp]

\* processFace up to its first await: the Recognition call is issued.
processFace(faceImage, boundingBox, lectureId, timestamp) ==
    [faceImage |-> faceImage, boundingBox |-> boundingBox, timestamp |-> timestamp,
     at |-> "identify", hung |-> FALSE,
     calls |-> <<IdentifyCall(faceImage)>>,
     recognitionResponse |-> NoData, attentionResponse |-> NoData,
     handRaisingResponse |-> NoData, error |-> NoAnswer]

\* The call a run is suspended on.
CurrentCall(run) == run.calls[Len(run.calls)]

\* The record processFace returns.
FaceResult(run) ==
    [person_id |-> run.recognitionResponse.person_id,
     recognition_status |-> run.recognitionResponse.status,
     attention_status |-> run.attentionResponse.attention_status,
     hand_raising_status |->
         [is_hand_raised |-> run.handRaisingResponse.is_hand_raised,
          confidence |-> run.handRaisingResponse.confidence,
          hand_position |-> run.handRaisingResponse.hand_position],
     confidence |-> run.attentionResponse.confidence,
     bounding_box |-> run.boundingBox]

\* processFace from an await that resolved with the body `data` to its next
\* await, its return or its throw.
NextAwait(run, data) ==
    CASE run.at = "identify" /\ data.person_id = Undefined ->
            \* attentionForm.append('face_id', undefined) throws
            [run EXCEPT !.recognitionResponse = data,
                        !.at = "thrown", !.error = AppendTypeError]
      [] run.at = "identify" /\ data.person_id # Undefined ->
            [run EXCEPT !.recognitionResponse = data,
                        !.at = "attention",
                        !.calls = @ \o <<AttentionCall(run.faceImage, data.person_id)>>]
      [] run.at = "attention" ->
            [run EXCEPT !.attentionResponse = data,
                        !.at = "handraising",
                        !.calls = @ \o <<HandRaisingCall(run.faceImage,
                                             run.recognitionResponse.person_id,
                                             run.timestamp)>>]
      [] run.at = "handraising" ->
            [run EXCEPT !.handRaisingResponse = data, !.at = "returned"]

\* A run that goes on to Attention, without an identity, when Recognition fails.
ResumeFaceAnonymous(run, ans) ==
    IF ans.ok THEN NextAwait(run, ans.data)
    ELSE IF run.at = "identify"
         THEN [run EXCEPT !.recognitionResponse = [person_id |-> Undefined,
                                                   status |-> Undefined],
                          !.at = "attention",
                          !.calls = @ \o <<AttentionCall(run.faceImage, Undefined)>>]
         ELSE [run EXCEPT !.at = "thrown", !.error = ans]

\* A run that issues a call that was rejected once more before it gives up.
ResumeFaceRetry(run, ans) ==
    IF ans.ok THEN NextAwait(run, ans.data)
    ELSE IF \A k \in 1..(Len(run.calls) - 1) : run.calls[k].url # CurrentCall(run).url
         THEN [run EXCEPT !.calls = @ \o <<CurrentCall(run)>>]
         ELSE [run EXCEPT !.at = "thrown", !.error = ans]

\* processFace from the await it is suspended on to its next await, its return
\* or its throw.
ResumeFace(run, ans) ==
    IF ~ans.ok
    THEN [run EXCEPT !.at = "thrown", !.error = ans]
    ELSE NextAwait(run, ans.data)

Suspended(run) == run.at \in {"identify", "attention", "handraising"} /\ ~run.hung

----------------------------------------------------------------------------
\* POST /api/process-frame

Falsy(field) == field = Absent \/ field[1] = <<>>

\* A validation that answers every missing field with the same message.
ValidationErrorGeneric(body, file) ==
    IF Falsy(body.lectureId) \/ Falsy(body.timestamp) \/ file = Absent
    THEN "Missing required fields"
    ELSE IF ~isValidISOString(body.timestamp[1])
         THEN "Invalid timestamp format. Must be ISO 8601"
    ELSE ""

\* A validation that looks at the image first.
ValidationErrorImageFirst(body, file) ==
    IF file = Absent THEN "No image provided"
    ELSE IF Falsy(body.lectureId) THEN "Lecture ID is required"
    ELSE IF Falsy(body.timestamp) THEN "Timestamp is required"
    ELSE IF ~isValidISOString(body.timestamp[1])
         THEN "Invalid timestamp format. Must be ISO 8601"
    ELSE ""

\* The validation of the handler: the message of the 400 response, or "" when
\* the request passes.
ValidationError(body, file) ==
    IF Falsy(body.lectureId) THEN "Lecture ID is required"
    ELSE IF Falsy(body.timestamp) THEN "Timestamp is required"
    ELSE IF file = Absent THEN "No image provided"
    ELSE IF ~isValidISOString(body.timestamp[1])
         THEN "Invalid timestamp format. Must be ISO 8601"
    ELSE ""

Response400(message) == [status |-> 400, body |-> [error |-> message]]

NoDetails == [placeholder |-> "No additional details available"]

\* The catch block of the handler.
Response500(error) ==
    [status |-> 500,
     body |-> [error |-> "Pipeline Error",
               message |-> error.message,
               details |-> IF error.response # Absent
                           THEN error.response[1].data ELSE NoDetails]]

LocalizationCall(url, localizationForm) == [url |-> url, image |-> localizationForm.image]

\* A join of the two Localization calls that waits for both before it rejects.
LocalizationJoinSettled(calls) ==
    IF \E which \in {"coords", "faces"} : calls[which].st # "settled"
    THEN "pending"
    ELSE IF \E which \in {"coords", "faces"} : ~calls[which].answer.ok
    THEN "rejected"
    ELSE "fulfilled"

\* Promise.all over the two Localization calls, at the moment one of them settles.
LocalizationJoin(calls) ==
    IF \E which \in {"coords", "faces"} :
           calls[which].st = "settled" /\ ~calls[which].answer.ok
    THEN "rejected"
    ELSE IF \A which \in {"coords", "faces"} : calls[which].st = "settled"
    THEN "fulfilled"
    ELSE "pending"

\* What Promise.all over the two Localization calls rejects with.
LocalizationError(calls) ==
    IF calls.coords.st = "settled" /\ ~calls.coords.answer.ok
    THEN calls.coords.answer ELSE calls.faces.answer

\* faceCoordinates[index]
At(array, index) == IF index \in DOMAIN array THEN array[index] ELSE UndefinedBox

\* localizedFaces.map((faceImage, index) => processFace(...))
FaceProcessingPromises(localizedFaces, faceCoordinates, lectureId, timestamp) ==
    [index \in 1..Len(localizedFaces) |->
        processFace(localizedFaces[index], At(faceCoordinates, index), lectureId, timestamp)]

\* A join that waits for at least one run to return.
PromiseAllNonEmpty(promises) ==
    IF \E i \in 1..Len(promises) : promises[i].at = "thrown" THEN "rejected"
    ELSE IF promises # <<>> /\ \A i \in 1..Len(promises) : promises[i].at = "returned"
    THEN "fulfilled"
    ELSE "pending"

\* Promise.all over the runs, at the moment one of them settles.
PromiseAll(promises) ==
    IF \E i \in 1..Len(promises) : promises[i].at = "thrown" THEN "rejected"
    ELSE IF \A i \in 1..Len(promises) : promises[i].at = "returned" THEN "fulfilled"
    ELSE "pending"

\* The results in the reverse of the order of the runs.
ResultsReversed(promises) ==
    [i \in 1..Len(promises) |-> FaceResult(promises[Len(promises) + 1 - i])]

\* The value Promise.all fulfils with.
Results(promises) == [i \in 1..Len(promises) |-> FaceResult(promises[i])]

Count(results, Test(_)) == Len(SelectSeq(results, Test))

\* Counters that take every face that is not new for a known one.
SummaryKnownElse(results) ==
    [new_faces |-> Count(results, LAMBDA r : r.recognition_status = "new"),
     known_faces |-> Count(results, LAMBDA r : r.recognition_status # "new"),
     focused_faces |-> Count(results, LAMBDA r : r.attention_status = "focused"),
     unfocused_faces |-> Count(results, LAMBDA r : r.attention_status = "unfocused"),
     hands_raised |-> Count(results, LAMBDA r : r.hand_raising_status.is_hand_raised)]

\* Counters that take every face that has a recognition status for a new one.
SummaryNewTruthy(results) ==
    [new_faces |-> Count(results, LAMBDA r : r.recognition_status # Undefined),
     known_faces |-> Count(results, LAMBDA r : r.recognition_status = "found"),
     focused_faces |-> Count(results, LAMBDA r : r.attention_status = "focused"),
     unfocused_faces |-> Count(results, LAMBDA r : r.attention_status = "unfocused"),
     hands_raised |-> Count(results, LAMBDA r : r.hand_raising_status.is_hand_raised)]

\* The summary counters of the response.
Summary(results) ==
    [new_faces |-> Count(results, LAMBDA r : r.recognition_status = "new"),
     known_faces |-> Count(results, LAMBDA r : r.recognition_status = "found"),
     focused_faces |-> Count(results, LAMBDA r : r.attention_status = "focused"),
     unfocused_faces |-> Count(results, LAMBDA r : r.attention_status = "unfocused"),
     hands_raised |-> Count(results, LAMBDA r : r.hand_raising_status.is_hand_raised)]

\* A response object stamped with the time of the server's clock, one second
\* after the capture.
AggregateServerTime(lectureId, timestamp, localizedFaces, results) ==
    [lecture_id |-> lectureId,
     timestamp |-> toISOString(MakeDate(2024, 1, 1, 10, 0, 1, 0)),
     total_faces |-> Len(localizedFaces),
     faces |-> results,
     summary |-> Summary(results)]

\* The response object of a processed frame.
Aggregate(lectureId, timestamp, localizedFaces, results) ==
    [lecture_id |-> lectureId,
     timestamp |-> timestamp,
     total_faces |-> Len(localizedFaces),
     faces |-> results,
     summary |-> Summary(results)]

Response200(body) == [status |-> 200, body |-> body]

----------------------------------------------------------------------------
\* State

NoLoc == [coords |-> NotIssued, faces |-> NotIssued]

\* localizationForm is one stream, and both Localization calls are given it
\* to read their body from. What each call gets is decided by the form and
\* HTTP libraries of the build: the whole body for both, or the whole body for
\* the call that reads first and nothing for the other.
FormReaders == {"both", "coords", "faces"}

\* The form as a call finds it: whole, or read to its end by the other call.
FormFor(which, localizationForm) ==
    IF formGoesTo \in {"both", which} THEN localizationForm
    ELSE [localizationForm EXCEPT !.image = <<>>]

Init ==
    /\ clients = {"r1"}
    /\ pc = [r \in Reqs |-> "idle"]
    /\ req = [r \in Reqs |-> NoReq]
    /\ loc = [r \in Reqs |-> NoLoc]
    /\ runs = [r \in Reqs |-> <<>>]
    /\ resp = [r \in Reqs |-> <<>>]
    /\ formGoesTo \in FormReaders

\* res.status(...).json(...) or res.json(...): the handler is over.
Send(r, response) ==
    /\ resp' = [resp EXCEPT ![r] = Append(@, response)]
    /\ pc' = [pc EXCEPT ![r] = "responded"]

\* A join that waits for every run and answers with the runs that returned.
JoinFacesPartial(r, localizedFaces, promises, error) ==
    IF \A i \in 1..Len(promises) : promises[i].at \in {"returned", "thrown"}
    THEN Send(r, Response200(Aggregate(req[r].body.lectureId[1],
                                       req[r].body.timestamp[1], localizedFaces,
                                       Results(SelectSeq(promises,
                                                   LAMBDA p : p.at = "returned")))))
    ELSE pc' = [pc EXCEPT ![r] = "analysing"] /\ UNCHANGED resp

\* A join that waits until every run has settled, and then reports the error
\* of the first run, in the order of the faces, that threw.
JoinFacesSettled(r, localizedFaces, promises, error) ==
    IF \E i \in 1..Len(promises) : promises[i].at \notin {"returned", "thrown"}
    THEN pc' = [pc EXCEPT ![r] = "analysing"] /\ UNCHANGED resp
    ELSE IF \E i \in 1..Len(promises) : promises[i].at = "thrown"
    THEN Send(r, Response500(
             promises[CHOOSE i \in 1..Len(promises) :
                         /\ promises[i].at = "thrown"
                         /\ \A j \in 1..(i - 1) : promises[j].at # "thrown"].error))
    ELSE Send(r, Response200(Aggregate(req[r].body.lectureId[1],
                                       req[r].body.timestamp[1],
                                       localizedFaces, Results(promises))))

\* A join that reads the results from an array that all requests push to.
JoinFacesShared(r, localizedFaces, promises, error) ==
    LET others == SelectSeq(runs[CHOOSE o \in Reqs : o # r], LAMBDA p : p.at = "returned")
    IN  CASE PromiseAll(promises) = "fulfilled" ->
                Send(r, Response200(Aggregate(req[r].body.lectureId[1],
                                              req[r].body.timestamp[1],
                                              localizedFaces, Results(others \o promises))))
          [] PromiseAll(promises) = "rejected" ->
                Send(r, Response500(error))
          [] PromiseAll(promises) = "pending" ->
                pc' = [pc EXCEPT ![r] = "analysing"] /\ UNCHANGED resp

\* The handler from `await Promise.all(faceProcessingPromises)` on, when the
\* runs of request r stand as `promises`; `error` is what the run that settled
\* last threw, if it threw.
JoinFaces(r, localizedFaces, promises, error) ==
    CASE PromiseAll(promises) = "fulfilled" ->
            Send(r, Response200(Aggregate(req[r].body.lectureId[1],
                                          req[r].body.timestamp[1],
                                          localizedFaces, Results(promises))))
      [] PromiseAll(promises) = "rejected" ->
            Send(r, Response500(error))
      [] PromiseAll(promises) = "pending" ->
            pc' = [pc EXCEPT ![r] = "analysing"] /\ UNCHANGED resp

\* A request arrives: validation, then the two Localization calls.
ProcessFrame(r, lectureId, timestamp, file) ==
    LET body == [lectureId |-> lectureId, timestamp |-> timestamp]
        invalid == ValidationError(body, file)
        localizationForm == [image |-> file[1].buffer, filename |-> "frame.jpg",
                             contentType |-> file[1].mimetype]
    IN  /\ r \in clients
        /\ pc[r] = "idle"
        /\ req' = [req EXCEPT ![r] = [body |-> body, file |-> file]]
        /\ IF invalid # ""
           THEN /\ Send(r, Response400(invalid))
                /\ UNCHANGED <<loc, runs>>
           ELSE /\ loc' = [loc EXCEPT ![r] =
                      [coords |-> Issued(LocalizationCall("/localize-coords",
                                             FormFor("coords", localizationForm))),
                       faces |-> Issued(LocalizationCall("/localize-faces",
                                            FormFor("faces", localizationForm)))]]
                /\ pc' = [pc EXCEPT ![r] = "localizing"]
                /\ UNCHANGED <<runs, resp>>
        /\ UNCHANGED <<clients, formGoesTo>>

\* The turn of the event loop in which one of the two Localization calls of
\* request r settles with `ans`.
LocalizationAnswered(r, which, ans) ==
    LET settled == [loc[r] EXCEPT ![which] = Settle(@, ans)]
    IN  /\ loc' = [loc EXCEPT ![r] = settled]
        /\ IF pc[r] # "localizing"
           THEN \* Promise.all has rejected already: the answer is dropped
                UNCHANGED <<pc, runs, resp>>
           ELSE CASE LocalizationJoin(settled) = "rejected" ->
                        Send(r, Response500(LocalizationError(settled)))
                        /\ UNCHANGED runs
                  [] LocalizationJoin(settled) = "fulfilled" ->
                        LET localizedFaces == settled.faces.answer.data.faces
                            faceCoordinates == settled.coords.answer.data.coordinates
                            promises == FaceProcessingPromises(
                                            localizedFaces, faceCoordinates,
                                            req[r].body.lectureId[1],
                                            req[r].body.timestamp[1])
                        IN  /\ runs' = [runs EXCEPT ![r] = promises]
                            /\ JoinFaces(r, localizedFaces, promises, NoAnswer)
                  [] LocalizationJoin(settled) = "pending" ->
                        UNCHANGED <<pc, runs, resp>>
        /\ UNCHANGED <<clients, req, formGoesTo>>

\* The turn of the event loop in which the call that run i of request r is
\* suspended on settles with `ans`.
FaceAnswered(r, i, ans) ==
    LET run == ResumeFace(runs[r][i], ans)
        promises == [runs[r] EXCEPT ![i] = run]
    IN  /\ runs' = [runs EXCEPT ![r] = promises]
        /\ IF pc[r] # "analysing"
           THEN \* the handler is over: the run goes on, its outcome is unused
                UNCHANGED <<pc, resp>>
           ELSE JoinFaces(r, loc[r].faces.answer.data.faces, promises, run.error)
        /\ UNCHANGED <<clients, req, loc, formGoesTo>>

\* Runs that are cancelled when the handler is over: their calls are aborted.
AnswerFaceCancelled(r, i) ==
    /\ i \in 1..Len(runs[r])
    /\ Suspended(runs[r][i])
    /\ pc[r] = "analysing"
    /\ \E ans \in Answers(CurrentCall(runs[r][i])) : FaceAnswered(r, i, ans)

\* Localization answers one of the two calls of request r.
AnswerLocalization(r, which) ==
    /\ loc[r][which].st = "pending"
    /\ \E ans \in Answers(loc[r][which].call) : LocalizationAnswered(r, which, ans)

\* A service answers the call that run i of request r is suspended on.
AnswerFace(r, i) ==
    /\ i \in 1..Len(runs[r])
    /\ Suspended(runs[r][i])
    /\ \E ans \in Answers(CurrentCall(runs[r][i])) : FaceAnswered(r, i, ans)

\* Localization never answers a call.
LocalizationHangs(r, which) ==
    /\ loc[r][which].st = "pending"
    /\ loc' = [loc EXCEPT ![r][which].st = "hung"]
    /\ UNCHANGED <<clients, pc, req, runs, resp, formGoesTo>>

\* The service never answers the call that run i of request r is suspended on.
FaceCallHangs(r, i) ==
    /\ i \in 1..Len(runs[r])
    /\ Suspended(runs[r][i])
    /\ runs' = [runs EXCEPT ![r][i].hung = TRUE]
    /\ UNCHANGED <<clients, pc, req, loc, resp, formGoesTo>>

\* The steps: a request arrives, or a downstream call is answered.
Next ==
    \/ \E r \in Reqs, lectureId \in LectureIds, timestamp \in Timestamps, file \in Files :
           ProcessFrame(r, lectureId, timestamp, file)
    \/ \E r \in Reqs, which \in {"coords", "faces"} : AnswerLocalization(r, which)
    \/ \E r \in Reqs, i \in 1..MaxFaces : AnswerFace(r, i)

Spec == Init /\ [][Next]_vars

\* The steps, with those in which a service settles on never answering a call.
NextOrHang ==
    \/ Next
    \/ \E r \in Reqs, which \in {"coords", "faces"} : LocalizationHangs(r, which)
    \/ \E r \in Reqs, i \in 1..MaxFaces : FaceCallHangs(r, i)

\* The event loop takes every event that is there to take: a call is answered
\* at some time unless its service has settled on never answering it.
FairSpec == Init /\ [][NextOrHang]_vars /\ WF_vars(NextOrHang)

----------------------------------------------------------------------------
\* Two concurrent requests served by deterministic services: the answer to a
\* call is a function of the content of the call.

\* The body a service gives when it answers a call with success: the frame
\* has two faces; p1 is new, focused and raises a hand, p2 is known and
\* unfocused and does not.
MockBody(call) ==
    CASE call.url = "/localize-coords" -> [coordinates |-> <<Box(1), Box(2)>>]
      [] call.url = "/localize-faces" -> [faces |-> <<Crop(1), Crop(2)>>]
      [] call.url = "/identify" ->
            IF call.image = Crop(1) THEN [person_id |-> "p1", status |-> "new"]
            ELSE [person_id |-> "p2", status |-> "found"]
      [] call.url = "/detect-face-attention" ->
            IF call.image = Crop(1) THEN [attention_status |-> "focused", confidence |-> 9]
            ELSE [attention_status |-> "unfocused", confidence |-> 4]
      [] call.url = "/detect-hand-raising" ->
            [is_hand_raised |-> call.image = Crop(1), confidence |-> 8,
             hand_position |-> [x |-> 1, y |-> 2]]

\* The body that the k-th await of a run resolved with, if it did.
ResponseAt(run, k) ==
    CASE k = 1 -> run.recognitionResponse
      [] k = 2 -> run.attentionResponse
      [] k = 3 -> run.handRaisingResponse

\* What the k-th call of a run settled with, NoAnswer while it is in flight.
AnswerOf(run, k) ==
    IF ResponseAt(run, k) # NoData THEN Resolved(ResponseAt(run, k))
    ELSE IF run.at = "thrown" THEN run.error
    ELSE NoAnswer

\* The answers that the calls with the content of `call` have had so far, in
\* any request.
PastAnswers(call) ==
    LET locs == {rw \in Reqs \X {"coords", "faces"} :
                    loc[rw[1]][rw[2]].st = "settled" /\ loc[rw[1]][rw[2]].call = call}
        faces == {rik \in Reqs \X (1..MaxFaces) \X (1..3) :
                    /\ rik[2] <= Len(runs[rik[1]])
                    /\ rik[3] <= Len(runs[rik[1]][rik[2]].calls)
                    /\ runs[rik[1]][rik[2]].calls[rik[3]] = call
                    /\ AnswerOf(runs[rik[1]][rik[2]], rik[3]) # NoAnswer}
    IN  {loc[rw[1]][rw[2]].answer : rw \in locs}
        \cup {AnswerOf(runs[rik[1]][rik[2]], rik[3]) : rik \in faces}

\* The answers a deterministic service can give to a call: the one it gave to
\* the same call before; for a call it sees for the first time, its body or a
\* failure.
MockAnswers(call) ==
    IF PastAnswers(call) # {} THEN PastAnswers(call)
    ELSE IF Starved(call) THEN {HttpError(call)}
    ELSE {Resolved(MockBody(call)), HttpError(call)}

MockAnswerLocalization(r, which) ==
    /\ loc[r][which].st = "pending"
    /\ \E ans \in MockAnswers(loc[r][which].call) : LocalizationAnswered(r, which, ans)

MockAnswerFace(r, i) ==
    /\ i \in 1..Len(runs[r])
    /\ Suspended(runs[r][i])
    /\ \E ans \in MockAnswers(CurrentCall(runs[r][i])) : FaceAnswered(r, i, ans)

InitTwo ==
    /\ clients = Reqs
    /\ pc = [r \in Reqs |-> "idle"]
    /\ req = [r \in Reqs |-> NoReq]
    /\ loc = [r \in Reqs |-> NoLoc]
    /\ runs = [r \in Reqs |-> <<>>]
    /\ resp = [r \in Reqs |-> <<>>]
    /\ formGoesTo \in FormReaders

NextMock ==
    \/ \E r \in Reqs, lectureId \in LectureIds, timestamp \in Timestamps, file \in Files :
           ProcessFrame(r, lectureId, timestamp, file)
    \/ \E r \in Reqs, which \in {"coords", "faces"} : MockAnswerLocalization(r, which)
    \/ \E r \in Reqs, i \in 1..MaxFaces : MockAnswerFace(r, i)

SpecTwo == InitTwo /\ [][NextMock]_vars

----------------------------------------------------------------------------
\* Properties

Arrived(r) == req[r] # NoReq

Answered(r) == Len(resp[r]) > 0

\* Every response sent for request r has the given status.
OnlyStatus(r, status) == \A k \in 1..Len(resp[r]) : resp[r][k].status = status

RunFailed(run) == run.at = "thrown"

\* C1: all-or-nothing join. Whenever one per-face run of a request has failed
\* (a Recognition, Attention or HandRaising call of that face was rejected),
\* the request has been answered, and every response sent for it is a 500: no
\* response carries the analysis of any other face.
C1_AllOrNothing ==
    \A r \in Reqs :
        (\E i \in 1..Len(runs[r]) : RunFailed(runs[r][i]))
            => Answered(r) /\ OnlyStatus(r, 500)

\* One run failed, a sibling run returned its analysis, and the answer is a 500.
C1_Witness ==
    \E r \in Reqs : \E i, j \in 1..Len(runs[r]) :
        /\ RunFailed(runs[r][i])
        /\ runs[r][j].at = "returned"
        /\ resp[r] = <<Response500(runs[r][i].error)>>

LocFailed(r, which) == loc[r][which].st = "settled" /\ ~loc[r][which].answer.ok

\* C2: whenever one of the two Localization calls of a request has failed, the
\* request has been answered with 500 (and with nothing else) and no run of
\* processFace exists for it, so no Recognition, Attention or HandRaising call
\* was issued; this holds whichever of the two calls settled first.
C2_LocalizationFailure ==
    \A r \in Reqs :
        (LocFailed(r, "coords") \/ LocFailed(r, "faces"))
            => /\ Answered(r) /\ OnlyStatus(r, 500)
               /\ runs[r] = <<>>

\* localize-coords failed after localize-faces had reported two faces.
C2_Witness ==
    \E r \in Reqs :
        /\ LocFailed(r, "coords")
        /\ loc[r].faces.st = "settled" /\ loc[r].faces.answer.ok
        /\ Len(loc[r].faces.answer.data.faces) = 2
        /\ resp[r] = <<Response500(loc[r].coords.answer)>>

Missing(field) == field = Absent \/ field = Some(<<>>)

MissingOnly(r, name) ==
    /\ Arrived(r)
    /\ Missing(req[r].body.lectureId) <=> name = "lectureId"
    /\ Missing(req[r].body.timestamp) <=> name = "timestamp"
    /\ req[r].file = Absent <=> name = "image"

NoDownstreamCall(r) == loc[r] = NoLoc /\ runs[r] = <<>>

\* C3: a request that misses exactly one of lectureId, image and timestamp is
\* answered with 400 and the message of that field, the three messages differ
\* from one another, and no downstream call is issued for the request.
C3_MissingField ==
    \A r \in Reqs :
        /\ MissingOnly(r, "lectureId")
              => resp[r] = <<Response400("Lecture ID is required")>> /\ NoDownstreamCall(r)
        /\ MissingOnly(r, "timestamp")
              => resp[r] = <<Response400("Timestamp is required")>> /\ NoDownstreamCall(r)
        /\ MissingOnly(r, "image")
              => resp[r] = <<Response400("No image provided")>> /\ NoDownstreamCall(r)
        /\ LET full == [lectureId |-> Some(LectureL1), timestamp |-> Some(TsCanonical)]
           IN  Cardinality({ValidationError([full EXCEPT !.lectureId = Absent], Some(FrameFile)),
                            ValidationError([full EXCEPT !.timestamp = Absent], Some(FrameFile)),
                            ValidationError(full, Absent)}) = 3

\* A request with a lecture id and a valid timestamp but no image was answered.
C3_Witness ==
    \E r \in Reqs :
        /\ MissingOnly(r, "image")
        /\ req[r].body.timestamp = Some(TsCanonical)
        /\ resp[r] = <<Response400("No image provided")>>

\* The 200 responses sent for request r.
Bodies200(r) == {resp[r][k].body : k \in {k \in 1..Len(resp[r]) : resp[r][k].status = 200}}

LocBothOk(r) ==
    /\ loc[r].coords.st = "settled" /\ loc[r].coords.answer.ok
    /\ loc[r].faces.st = "settled" /\ loc[r].faces.answer.ok

CoordsOf(r) == loc[r].coords.answer.data.coordinates

CropsOf(r) == loc[r].faces.answer.data.faces

\* C4: in every 200 response, the length of faces, total_faces and the number
\* of entries of the coordinates array that localize-coords returned are equal.
C4_FaceCount ==
    \A r \in Reqs : \A b \in Bodies200(r) :
        /\ Len(b.faces) = b.total_faces
        /\ b.total_faces = Len(CoordsOf(r))

HowMany(faces, Test(_)) == Cardinality({i \in 1..Len(faces) : Test(faces[i])})

\* C5: in every 200 response each summary counter is the number of entries of
\* faces that satisfy its predicate.
C5_SummaryCounts ==
    \A r \in Reqs : \A b \in Bodies200(r) :
        /\ b.summary.new_faces = HowMany(b.faces, LAMBDA f : f.recognition_status = "new")
        /\ b.summary.known_faces = HowMany(b.faces, LAMBDA f : f.recognition_status = "found")
        /\ b.summary.focused_faces = HowMany(b.faces, LAMBDA f : f.attention_status = "focused")
        /\ b.summary.unfocused_faces =
               HowMany(b.faces, LAMBDA f : f.attention_status = "unfocused")
        /\ b.summary.hands_raised =
               HowMany(b.faces, LAMBDA f : f.hand_raising_status.is_hand_raised = TRUE)

\* The two-face scenario: p1 is new, focused and raises a hand, p2 is known,
\* unfocused and does not; every counter of the response is 1.
C5_Witness ==
    \E r \in Reqs : \E b \in Bodies200(r) :
        /\ Len(b.faces) = 2
        /\ b.faces[1].person_id = "p1" /\ b.faces[1].recognition_status = "new"
        /\ b.faces[1].attention_status = "focused"
        /\ b.faces[1].hand_raising_status.is_hand_raised
        /\ b.faces[2].person_id = "p2" /\ b.faces[2].recognition_status = "found"
        /\ b.faces[2].attention_status = "unfocused"
        /\ ~b.faces[2].hand_raising_status.is_hand_raised
        /\ b.summary = [new_faces |-> 1, known_faces |-> 1, focused_faces |-> 1,
                        unfocused_faces |-> 1, hands_raised |-> 1]

\* C6: in every 200 response faces has one entry per face crop of localize-faces,
\* in their order: entry i is built from the answers to the calls made with
\* crop i (and only with crop i), and its bounding_box is entry i of the
\* coordinates of localize-coords, where there is one.
C6_FacesOrder ==
    \A r \in Reqs : \A b \in Bodies200(r) :
        /\ Len(b.faces) = Len(CropsOf(r))
        /\ \A i \in 1..Len(b.faces) :
            LET run == runs[r][i]
            IN  /\ \A k \in 1..Len(run.calls) : run.calls[k].image = CropsOf(r)[i]
                /\ Len(run.calls) = 3
                /\ b.faces[i].person_id = run.recognitionResponse.person_id
                /\ b.faces[i].recognition_status = run.recognitionResponse.status
                /\ b.faces[i].attention_status = run.attentionResponse.attention_status
                /\ b.faces[i].confidence = run.attentionResponse.confidence
                /\ b.faces[i].hand_raising_status.is_hand_raised
                       = run.handRaisingResponse.is_hand_raised
                /\ i <= Len(CoordsOf(r)) => b.faces[i].bounding_box = CoordsOf(r)[i]

\* A 200 response for two faces whose analyses and bounding boxes differ.
C6_Witness ==
    \E r \in Reqs : \E b \in Bodies200(r) :
        /\ Len(b.faces) = 2 /\ Len(CoordsOf(r)) = 2
        /\ b.faces[1].person_id # b.faces[2].person_id
        /\ b.faces[1].attention_status # b.faces[2].attention_status
        /\ b.faces[1].bounding_box = Box(1) /\ b.faces[2].bounding_box = Box(2)

\* C7: every request that passes validation is eventually answered, also when
\* a downstream service never answers a call.
C7_EventuallyAnswered ==
    \A r \in Reqs : (pc[r] = "localizing") ~> Answered(r)

Complete(face) ==
    /\ face.person_id # Undefined
    /\ face.recognition_status # Undefined
    /\ face.attention_status # Undefined
    /\ face.bounding_box # UndefinedBox

\* C8: a request gets at most one response, a 200, a 400 or a 500, and every
\* entry of the faces of a 200 response has all its components.
C8_OneCompleteResponse ==
    \A r \in Reqs :
        /\ Len(resp[r]) <= 1
        /\ \A k \in 1..Len(resp[r]) : resp[r][k].status \in {200, 400, 500}
        /\ \A b \in Bodies200(r) : \A i \in 1..Len(b.faces) : Complete(b.faces[i])

\* C9: when the coordinates of localize-coords and the faces of localize-faces
\* differ in length, the request gets no response other than a 500.
C9_LengthMismatch ==
    \A r \in Reqs :
        (LocBothOk(r) /\ Len(CoordsOf(r)) # Len(CropsOf(r))) => OnlyStatus(r, 500)

FirstError(r) == resp[r][1].body.error

\* The timestamps of the model that the handler's check turns down.
InvalidTimestamps ==
    {timestamp \in Timestamps \ {Absent, Some(<<>>)} : ~isValidISOString(timestamp[1])}

Invalid(timestamp) == timestamp \in InvalidTimestamps

\* C10 as stated: the preconditions are checked in the order image, lectureId,
\* timestamp present, timestamp valid, and the 400 response is that of the
\* first one that fails.
C10_ClaimedOrder ==
    \A r \in Reqs : Arrived(r) =>
        LET body == req[r].body
            file == req[r].file
        IN  /\ file = Absent => FirstError(r) = "No image provided"
            /\ file # Absent /\ Missing(body.lectureId)
                   => FirstError(r) = "Lecture ID is required"
            /\ file # Absent /\ ~Missing(body.lectureId) /\ Missing(body.timestamp)
                   => FirstError(r) = "Timestamp is required"

\* C10, amended: the preconditions are checked in the order lectureId,
\* timestamp present, image, timestamp valid, and the request is answered with
\* the 400 response of the first one that fails.
C10_CodeOrder ==
    \A r \in Reqs : Arrived(r) =>
        LET body == req[r].body
            file == req[r].file
        IN  /\ Missing(body.lectureId)
                   => resp[r] = <<Response400("Lecture ID is required")>>
            /\ ~Missing(body.lectureId) /\ Missing(body.timestamp)
                   => resp[r] = <<Response400("Timestamp is required")>>
            /\ ~Missing(body.lectureId) /\ ~Missing(body.timestamp) /\ file = Absent
                   => resp[r] = <<Response400("No image provided")>>
            /\ ~Missing(body.lectureId) /\ ~Missing(body.timestamp) /\ file # Absent
               /\ Invalid(body.timestamp)
                   => resp[r] = <<Response400("Invalid timestamp format. Must be ISO 8601")>>

\* A request without image and without lectureId got the lectureId message.
C10_Witness ==
    \E r \in Reqs :
        /\ Arrived(r)
        /\ req[r].file = Absent /\ Missing(req[r].body.lectureId)
        /\ resp[r] = <<Response400("Lecture ID is required")>>

\* The string is what new Date(str).toISOString() gives back.
RoundTrips(str) ==
    LET d == DateParse(str)
    IN  d # NaN /\ toISOString(d) = str

\* The timestamps of the model that round-trip.
RoundTripping == {timestamp \in Timestamps \ {Absent, Some(<<>>)} : RoundTrips(timestamp[1])}

\* C11: a request whose timestamp is present but is not its own canonical ISO
\* re-serialisation (parse, then toISOString) is answered with 400, with the
\* invalid-format message when nothing else is wrong with the request, and no
\* downstream call is issued for it; a request with lectureId and image whose
\* timestamp does round-trip is not answered with 400 and its Localization
\* calls are issued.
C11_TimestampRoundTrip ==
    \A r \in Reqs : (Arrived(r) /\ ~Missing(req[r].body.timestamp)) =>
        LET present == ~Missing(req[r].body.lectureId) /\ req[r].file # Absent
        IN  IF req[r].body.timestamp \in RoundTripping
            THEN present => /\ \A k \in 1..Len(resp[r]) : resp[r][k].status # 400
                            /\ loc[r].coords.st # "none" /\ loc[r].faces.st # "none"
            ELSE /\ Len(resp[r]) = 1 /\ resp[r][1].status = 400
                 /\ NoDownstreamCall(r)
                 /\ present => resp[r] = <<Response400(
                                   "Invalid timestamp format. Must be ISO 8601")>>

\* 30 February parses as a date (1 March) but does not round-trip: the request,
\* complete otherwise, got the 400 of the invalid format.
C11_Witness ==
    \E r \in Reqs :
        /\ Arrived(r)
        /\ req[r].body = [lectureId |-> Some(LectureL1), timestamp |-> Some(TsFeb30)]
        /\ req[r].file # Absent
        /\ DateParse(TsFeb30) # NaN
        /\ resp[r] = <<Response400("Invalid timestamp format. Must be ISO 8601")>>
        /\ NoDownstreamCall(r)

MalformedRecognition(run) ==
    /\ run.recognitionResponse # NoData
    /\ \/ run.recognitionResponse.person_id = Undefined
       \/ run.recognitionResponse.status = Undefined

\* C12: a Recognition answer with a success status whose body lacks person_id
\* or status makes the run of that face fail and the request end in a 500; no
\* 200 response has a face whose person_id or recognition_status is absent.
C12_MalformedRecognition ==
    \A r \in Reqs :
        /\ \A i \in 1..Len(runs[r]) :
               MalformedRecognition(runs[r][i])
                   => RunFailed(runs[r][i]) /\ Answered(r) /\ OnlyStatus(r, 500)
        /\ \A b \in Bodies200(r) : \A i \in 1..Len(b.faces) :
               /\ b.faces[i].person_id # Undefined
               /\ b.faces[i].recognition_status # Undefined

\* The number of calls that a run has issued to a URL.
CallsTo(run, url) == Cardinality({k \in 1..Len(run.calls) : run.calls[k].url = url})

FaceUrls == {"/identify", "/detect-face-attention", "/detect-hand-raising"}

SameInputs(r1, r2) == Arrived(r1) /\ Arrived(r2) /\ req[r1] = req[r2]

\* C14 as stated: two requests with identical inputs, served by deterministic
\* services, receive identical response payloads, whatever the interleaving
\* of the downstream completions of the two requests.
C14_IdenticalResponses ==
    \A r1, r2 \in Reqs :
        (SameInputs(r1, r2) /\ Answered(r1) /\ Answered(r2)) => resp[r1] = resp[r2]

\* C14, amended: two requests with identical inputs, served by deterministic
\* services, receive responses of the same status, and identical payloads when
\* the status is 200 or 400; a 500 reports the failed call that settled first
\* for its request.
C14_IdenticalOutcome ==
    \A r1, r2 \in Reqs :
        (SameInputs(r1, r2) /\ Answered(r1) /\ Answered(r2)) =>
            /\ Len(resp[r1]) = 1 /\ Len(resp[r2]) = 1
            /\ resp[r1][1].status = resp[r2][1].status
            /\ resp[r1][1].status \in {200, 400} => resp[r1] = resp[r2]

\* Two requests with the same inputs were both answered 200, with the same
\* two faces.
C14_Witness ==
    /\ SameInputs("r1", "r2")
    /\ \E b \in Bodies200("r1") : Len(b.faces) = 2 /\ resp["r2"] = <<Response200(b)>>

\* C15: the timestamp of every 200 response is the timestamp string of the
\* request, character for character, and its lecture_id is the lectureId of
\* the request.
C15_EchoedTimestamp ==
    \A r \in Reqs : \A b \in Bodies200(r) :
        /\ b.timestamp = req[r].body.timestamp[1]
        /\ b.lecture_id = req[r].body.lectureId[1]

\* A request for lecture L1 captured at 2024-01-01T10:00:00.000Z was answered
\* 200 with that lecture and that time.
C15_Witness ==
    \E r \in Reqs : \E b \in Bodies200(r) :
        /\ req[r].body = [lectureId |-> Some(LectureL1), timestamp |-> Some(TsCanonical)]
        /\ b.timestamp = TsCanonical /\ b.lecture_id = LectureL1

Chain == <<"/identify", "/detect-face-attention", "/detect-hand-raising">>

\* C16: the calls of a run of processFace form a strict chain. They are
\* identify, detect-face-attention, detect-hand-raising in this order; the
\* Attention call exists only if Recognition has answered that face with
\* success, the HandRaising call only if Attention has; a run whose
\* Recognition call failed has issued no other call, and a run whose
\* Attention call failed has issued no HandRaising call.
C16_StrictChain ==
    \A r \in Reqs : \A i \in 1..Len(runs[r]) :
        LET run == runs[r][i]
        IN  /\ Len(run.calls) \in 1..3
            /\ \A k \in 1..Len(run.calls) : run.calls[k].url = Chain[k]
            /\ Len(run.calls) >= 2 => run.recognitionResponse \in IdentifyBodies
            /\ Len(run.calls) = 3 => run.attentionResponse \in AttentionBodies
            /\ (RunFailed(run) /\ run.recognitionResponse = NoData) => Len(run.calls) = 1
            /\ (RunFailed(run) /\ run.attentionResponse = NoData) => Len(run.calls) <= 2

\* Recognition rejected the call of one face, whose run stopped there, while
\* the run of another face, answered by Recognition and by Attention, issued
\* its three calls.
C16_Witness ==
    \E r \in Reqs : \E i, j \in 1..Len(runs[r]) :
        /\ RunFailed(runs[r][i]) /\ runs[r][i].recognitionResponse = NoData
        /\ runs[r][i].error = HttpError(IdentifyCall(runs[r][i].faceImage))
        /\ Len(runs[r][i].calls) = 1
        /\ Len(runs[r][j].calls) = 3
        /\ runs[r][j].attentionResponse \in AttentionBodies

\* Run i of request r fails in this step.
FailsNow(r, i) == ~RunFailed(runs[r][i]) /\ RunFailed(runs'[r][i])

\* C17: fail-fast join. In the step in which a run of a request that is still
\* unanswered fails, the 500 response that carries the error of that run is
\* sent, whether or not sibling runs have calls in flight; and a response, once
\* sent, is not changed by what the siblings do later.
C17_FailFast ==
    [][\A r \in Reqs :
          /\ \A i \in 1..Len(runs[r]) :
                 (pc[r] = "analysing" /\ FailsNow(r, i))
                     => resp'[r] = <<Response500(runs'[r][i].error)>>
          /\ resp[r] # <<>> => resp'[r] = resp[r]]_vars

\* One run has failed, a sibling is still waiting for an answer, and the 500
\* with the error of the failed run has been sent.
C17_Witness ==
    \E r \in Reqs : \E i, j \in 1..Len(runs[r]) :
        /\ RunFailed(runs[r][i])
        /\ Suspended(runs[r][j])
        /\ resp[r] = <<Response500(runs[r][i].error)>>
        /\ pc[r] = "responded"

\* The calls that a run has issued if they depend on nothing but the answers
\* the run itself has had.
OwnCalls(run) ==
    <<IdentifyCall(run.faceImage)>>
    \o (IF run.recognitionResponse # NoData /\ run.recognitionResponse.person_id # Undefined
        THEN <<AttentionCall(run.faceImage, run.recognitionResponse.person_id)>>
        ELSE <<>>)
    \o (IF run.attentionResponse # NoData
        THEN <<HandRaisingCall(run.faceImage, run.recognitionResponse.person_id,
                               run.timestamp)>>
        ELSE <<>>)

\* C18: the runs of one frame are independent. As soon as the runs exist there
\* is one per face crop, each with its Recognition call issued; the calls a run
\* has issued are determined by the answers that run has had, whatever the
\* other runs and the handler have come to; and a run that waits for an answer
\* can take it, also when a sibling is pending or has failed and the request
\* has been answered 500.
C18_IndependentRuns ==
    \A r \in Reqs :
        /\ LocBothOk(r) => Len(runs[r]) = Len(CropsOf(r))
        /\ \A i \in 1..Len(runs[r]) :
               /\ runs[r][i].faceImage = CropsOf(r)[i]
               /\ runs[r][i].calls = OwnCalls(runs[r][i])
               /\ Suspended(runs[r][i]) => ENABLED AnswerFace(r, i)

\* The request has been answered 500 with the error of a failed run, and a
\* sibling that has only called Recognition so far can take its answer and go
\* on.
C18_Witness ==
    \E r \in Reqs : \E i, j \in 1..Len(runs[r]) :
        /\ RunFailed(runs[r][i])
        /\ resp[r] = <<Response500(runs[r][i].error)>>
        /\ runs[r][j].at = "identify" /\ runs[r][j].calls = <<IdentifyCall(Crop(j))>>
        /\ ENABLED AnswerFace(r, j)

\* C19: no data crosses between runs. Every call of the run of a face carries
\* the crop of that face; the face_id sent to Attention and the student_id
\* sent to HandRaising are the person_id that Recognition gave for that crop;
\* every answer the run holds is the service's answer to the run's own call;
\* and entry i of the faces of a 200 response is made of the answers for crop i
\* of that request. This holds under every interleaving of the runs of one
\* frame and of two concurrent frames.
C19_NoCrossing ==
    \A r \in Reqs : \A i \in 1..Len(runs[r]) :
        LET run == runs[r][i]
            crop == CropsOf(r)[i]
            person == MockBody(IdentifyCall(crop)).person_id
        IN  /\ \A k \in 1..Len(run.calls) :
                   /\ run.calls[k].image = crop
                   /\ ResponseAt(run, k) # NoData
                          => ResponseAt(run, k) = MockBody(run.calls[k])
            /\ Len(run.calls) >= 2 => run.calls[2].face_id = person
            /\ Len(run.calls) = 3 => run.calls[3].student_id = person
            /\ \A b \in Bodies200(r) :
                   /\ b.faces[i].person_id = person
                   /\ b.faces[i].recognition_status = MockBody(IdentifyCall(crop)).status
                   /\ b.faces[i].attention_status
                          = MockBody(AttentionCall(crop, person)).attention_status
                   /\ b.faces[i].confidence = MockBody(AttentionCall(crop, person)).confidence
                   /\ b.faces[i].hand_raising_status
                          = MockBody(HandRaisingCall(crop, person, run.timestamp))

\* One request has been answered 200 with p1 and p2, while in the other the
\* run of the second face, ahead of the run of the first, asks HandRaising
\* about p2.
C19_Witness ==
    /\ \E b \in Bodies200("r1") :
           Len(b.faces) = 2 /\ b.faces[1].person_id = "p1" /\ b.faces[2].person_id = "p2"
    /\ Len(runs["r2"]) = 2
    /\ runs["r2"][1].at = "identify"
    /\ runs["r2"][2].at = "handraising"
    /\ CurrentCall(runs["r2"][2]).student_id = "p2"

\* C20: the two Localization calls of a request are independent: each of
\* them is sent with the complete frame image as its body, whichever of the
\* two reads the form first.
C20_CompleteBodies ==
    \A r \in Reqs : \A which \in {"coords", "faces"} :
        loc[r][which].st # "none" => loc[r][which].call.image = req[r].file[1].buffer

NoFaces(r) == LocBothOk(r) /\ Len(CoordsOf(r)) = 0 /\ Len(CropsOf(r)) = 0

\* C21: when both Localization calls of a request have succeeded and have
\* reported no face, the request has been answered 200 with total_faces 0, an
\* empty faces and the five summary counters at 0, and no run of processFace
\* exists for it, so no Recognition, Attention or HandRaising call was issued.
C21_NoFaces ==
    \A r \in Reqs : NoFaces(r) =>
        /\ resp[r] = <<Response200(
               [lecture_id |-> req[r].body.lectureId[1],
                timestamp |-> req[r].body.timestamp[1],
                total_faces |-> 0,
                faces |-> <<>>,
                summary |-> [new_faces |-> 0, known_faces |-> 0, focused_faces |-> 0,
                             unfocused_faces |-> 0, hands_raised |-> 0]])>>
        /\ runs[r] = <<>>

\* Both Localization calls answered with empty lists and the request was
\* answered 200 for no face.
C21_Witness ==
    \E r \in Reqs :
        /\ NoFaces(r)
        /\ loc[r].coords.call.image = FrameFile.buffer
        /\ loc[r].faces.call.image = FrameFile.buffer
        /\ \E b \in Bodies200(r) : b.total_faces = 0 /\ b.faces = <<>>

\* C22: in every 200 response new_faces + known_faces, focused_faces +
\* unfocused_faces and hands_raised are each at most total_faces; the first
\* sum is total_faces when every face has the recognition status new or found,
\* the second when every face has the attention status focused or unfocused.
C22_SummaryBounds ==
    \A r \in Reqs : \A b \in Bodies200(r) :
        /\ b.summary.new_faces + b.summary.known_faces <= b.total_faces
        /\ b.summary.focused_faces + b.summary.unfocused_faces <= b.total_faces
        /\ b.summary.hands_raised <= b.total_faces
        /\ (\A i \in 1..Len(b.faces) : b.faces[i].recognition_status \in {"new", "found"})
               => b.summary.new_faces + b.summary.known_faces = b.total_faces
        /\ (\A i \in 1..Len(b.faces) : b.faces[i].attention_status \in {"focused", "unfocused"})
               => b.summary.focused_faces + b.summary.unfocused_faces = b.total_faces

\* A 200 response for two faces, one of which Recognition answered without a
\* status: one face is new or known, both are focused or unfocused, one hand
\* is raised.
C22_Witness ==
    \E r \in Reqs : \E b \in Bodies200(r) :
        /\ b.total_faces = 2
        /\ b.summary.new_faces + b.summary.known_faces = 1
        /\ b.summary.focused_faces + b.summary.unfocused_faces = 2
        /\ b.summary.hands_raised = 1

====
